---- MODULE Spec2Model ----
(***************************************************************************)
(* Model of the nozzle object-document mapper: schema validation (parse,   *)
(* parsePartial, parseReplace), default extraction, the field-provenance   *)
(* analysis (getModifiedFields, getEqualityFields), applyDefaultsForUpsert *)
(* and the CRUD entry points that call them before reaching the store;     *)
(* the client module (connect, disconnect, getDb, healthCheck, sessions    *)
(* and withTransaction) and the index synchronisation.                     *)
(*                                                                         *)
(* Documents are functions from field names to values.  Every value is a  *)
(* string; UNDEF stands for a key that is present with the value           *)
(* undefined.  Filters are JSON trees: a node is a function from keys to   *)
(* tagged values (Lit, Obj, Arr).                                          *)
(***************************************************************************)
EXTENDS Integers, Sequences, FiniteSets, TLC

VARIABLES
    model,               \* the schema the Model instance is bound to
    store,               \* the collection: sequence of stored documents
    partialSchemaCache,  \* schemas that have a cached relaxed variant
    defaultsCache,       \* schema -> cached DefaultsMap
    nops,                \* number of write entry points called so far
    last,                \* record of the last call: inputs, driver calls, outcome
    connection,          \* the singleton connection: { client, db } or null
    opened,              \* number of MongoClient instances created so far
    pending,             \* connect() calls awaiting client.connect()
    sessions,            \* per started session: its client and how often it was ended
    tx,                  \* the withTransaction call in progress, if any
    indexes,             \* the collection's indexes: name -> key specification
    now,                 \* the time a default producer reads (new Date())
    syncing              \* the syncIndexes call a Model constructor left running

clientVars == <<connection, opened, pending, sessions, tx, indexes, syncing>>

vars ==
    <<model, store, partialSchemaCache, defaultsCache, nops, last, clientVars, now>>

(***************************************************************************)
(* Bounds                                                                  *)
(***************************************************************************)
MaxOps == 2
MaxBatch == 2
MaxClients == 2
MaxSessions == 2

MaxDeclared == 2

MaxTime == 2

(***************************************************************************)
(* JSON helpers                                                            *)
(***************************************************************************)
UNDEF == "undefined"

EmptyDoc == [k \in {} |-> ""]

Lit(v) == [t |-> "lit", lit |-> v]
Obj(o) == [t |-> "obj", obj |-> o]
Arr(a) == [t |-> "arr", arr |-> a]

\* { ...a, ...b }: the keys of both, b's value where both have the key
Spread(a, b) ==
    [k \in DOMAIN a \cup DOMAIN b |-> IF k \in DOMAIN b THEN b[k] ELSE a[k]]

Without(d, k) == [x \in DOMAIN d \ {k} |-> d[x]]

\* reading a key of an object: undefined when the key is absent
Get(d, k) == IF k \in DOMAIN d THEN d[k] ELSE UNDEF

RECURSIVE SeqToSet(_)
SeqToSet(s) == IF s = <<>> THEN {} ELSE {Head(s)} \cup SeqToSet(Tail(s))

(***************************************************************************)
(* Schemas.  A schema is known by its identity; Shape gives, per declared  *)
(* field, the values its type accepts, whether it is optional and its      *)
(* declared default.                                                       *)
(***************************************************************************)
Schemas == {"product", "user"}

StringVals == {"", "X", "Y", "general", "special", "a@b", "bad"}
NumberVals == {"-1", "5", "7"}
BoolVals == {"true", "false"}
IdVals == {"id1", "id2", "id3", "id4", "id5", "id6", "id7", "id8", "id9"}

Required(valid) ==
    [valid |-> valid, optional |-> FALSE, hasDefault |-> FALSE, default |-> UNDEF,
     prefault |-> FALSE]
Optional(valid) ==
    [valid |-> valid, optional |-> TRUE, hasDefault |-> FALSE, default |-> UNDEF,
     prefault |-> FALSE]
Default(valid, d) ==
    [valid |-> valid, optional |-> FALSE, hasDefault |-> TRUE, default |-> d,
     prefault |-> FALSE]
\* a default that is itself validated by the field's type (.prefault(d))
Prefault(valid, d) ==
    [valid |-> valid, optional |-> FALSE, hasDefault |-> TRUE, default |-> d,
     prefault |-> TRUE]

\* z.object({ name: z.string(), price: z.number().min(0),
\*            category: z.string().default("general"),
\*            inStock: z.boolean().default(true) })
\* with the identifier declared, as Infer<T> & { _id?: unknown } admits
productSchema ==
    [_id      |-> Optional(IdVals),
     name     |-> Required(StringVals),
     price    |-> Required({"5", "7"}),
     category |-> Default(StringVals, "general"),
     inStock  |-> Default(BoolVals, "true")]

\* z.object({ name: z.string().min(1), email: z.string().email(),
\*            age: z.number().int().positive().optional() })
userSchema ==
    [name  |-> Required(StringVals \ {""}),
     email |-> Required({"a@b"}),
     age   |-> Optional({"5"})]

\* schemas whose validation does not end in a plain result:
\*   asyncSchema     z.object({ name: z.string(), flag: z.boolean().default(true) })
\*                   with an asynchronous check: safeParse returns a Promise
\*   throwingSchema  the same fields with a check that throws while validating
\*   prefaultSchema  z.object({ name: z.string(),
\*                              code: z.enum(["special"]).prefault("bad") }):
\*                   validating an input without code fails
\* z.object({ name: z.string(), createdAt: z.date().default(() => new Date()) }),
\* declared twice: two schemas of one shape
ClockSchemas == {"event", "eventCopy"}

\* the date the producer returns at time n
Stamp(n) == "t" \o ToString(n)

eventSchema ==
    [name      |-> Required(StringVals),
     createdAt |-> Default({Stamp(n) : n \in 1..MaxTime}, Stamp(now))]

ProbeSchemas == {"asyncSchema", "throwingSchema", "prefaultSchema"}

AllSchemas == Schemas \cup ProbeSchemas

flagSchema ==
    [name |-> Required(StringVals),
     flag |-> Default(BoolVals, "true")]

prefaultSchema ==
    [name |-> Required(StringVals),
     code |-> Prefault({"special"}, "bad")]

Shape(s) ==
    CASE s = "product" -> productSchema
      [] s = "user" -> userSchema
      [] s = "prefaultSchema" -> prefaultSchema
      [] s \in ClockSchemas -> eventSchema
      [] OTHER -> flagSchema

\* the order in which the object schema visits its keys
ShapeOrder(s) ==
    CASE s = "product" -> <<"_id", "name", "price", "category", "inStock">>
      [] s = "user" -> <<"name", "email", "age">>
      [] s = "prefaultSchema" -> <<"name", "code">>
      [] s \in ClockSchemas -> <<"name", "createdAt">>
      [] OTHER -> <<"name", "flag">>

\* what a synchronous safeParse of the schema ends in
Behaviour(s) ==
    CASE s = "asyncSchema" -> "promise"
      [] s = "throwingSchema" -> "throw"
      [] OTHER -> "result"

(***************************************************************************)
(* zod's object safeParse, for the schema itself (partial = FALSE) and for *)
(* schema.partial() (partial = TRUE).                                      *)
(***************************************************************************)
\* the outcome for one field: "issue", or the output value (UNDEF = none)
FieldResult(fs, partial, v) ==
    IF v = UNDEF
    THEN IF fs.hasDefault
         THEN IF fs.prefault /\ fs.default \notin fs.valid
              THEN [ok |-> FALSE, value |-> UNDEF, message |-> "invalid"]
              ELSE [ok |-> TRUE, value |-> fs.default, message |-> ""]
         ELSE IF fs.optional \/ partial THEN [ok |-> TRUE, value |-> UNDEF, message |-> ""]
         ELSE [ok |-> FALSE, value |-> UNDEF, message |-> "required"]
    ELSE IF v \in fs.valid THEN [ok |-> TRUE, value |-> v, message |-> ""]
         ELSE [ok |-> FALSE, value |-> UNDEF, message |-> "invalid"]

RECURSIVE CollectIssues(_, _, _, _)
CollectIssues(s, partial, data, order) ==
    IF order = <<>> THEN <<>>
    ELSE LET f == Head(order)
             r == FieldResult(Shape(s)[f], partial, Get(data, f))
             rest == CollectIssues(s, partial, data, Tail(order))
         IN  IF r.ok THEN rest
             ELSE <<[path |-> <<f>>, message |-> r.message]>> \o rest

SafeParse(s, partial, data) ==
    LET sh == Shape(s)
        res(f) == FieldResult(sh[f], partial, Get(data, f))
        issues == CollectIssues(s, partial, data, ShapeOrder(s))
        \* a key is written when its value is defined, or when the input has the key
        keys == {f \in DOMAIN sh : res(f).value # UNDEF \/ f \in DOMAIN data}
    IN  IF Behaviour(s) # "result"
        THEN [kind |-> Behaviour(s), success |-> FALSE, data |-> EmptyDoc,
              issues |-> <<>>]
        ELSE [kind    |-> "result",
              success |-> issues = <<>>,
              data    |-> IF issues = <<>> THEN [f \in keys |-> res(f).value]
                          ELSE EmptyDoc,
              issues  |-> issues]

(***************************************************************************)
(* errors.ts                                                               *)
(***************************************************************************)
NoError == [kind |-> "none", operation |-> "", issues |-> <<>>, uri |-> ""]

ValidationError(issues, operation) ==
    [kind |-> "ValidationError", operation |-> operation, issues |-> issues,
     uri |-> ""]

AsyncValidationError ==
    [kind |-> "AsyncValidationError", operation |-> "", issues |-> <<>>, uri |-> ""]

\* an error thrown by the schema itself, which no entry point catches
SchemaError == [kind |-> "Error", operation |-> "", issues |-> <<>>, uri |-> ""]

\* uri is UNDEF when the error is raised without a connection target
ConnectionError(uri) ==
    [kind |-> "ConnectionError", operation |-> "", issues |-> <<>>, uri |-> uri]

\* an error the caller's own code throws
SimulatedError ==
    [kind |-> "SimulatedError", operation |-> "", issues |-> <<>>, uri |-> ""]

\* issue.path.join('.') for the paths of a flat object schema
JoinPath(path) == IF path = <<>> THEN "" ELSE path[1]

FieldKey(issue) == IF JoinPath(issue.path) = "" THEN "root" ELSE JoinPath(issue.path)

RECURSIVE MessagesFor(_, _)
MessagesFor(issues, key) ==
    IF issues = <<>> THEN <<>>
    ELSE (IF FieldKey(Head(issues)) = key THEN <<Head(issues).message>> ELSE <<>>)
         \o MessagesFor(Tail(issues), key)

getFieldErrors(err) ==
    [key \in {FieldKey(err.issues[i]) : i \in DOMAIN err.issues}
        |-> MessagesFor(err.issues, key)]

(***************************************************************************)
(* validation.ts: parse, parsePartial, parseReplace                        *)
(***************************************************************************)
Ok(data) == [err |-> NoError, data |-> data]
Fail(err) == [err |-> err, data |-> EmptyDoc]

\* full validation that keeps only the supplied keys
parseSuppliedOnly(s, data) ==
    LET result == SafeParse(s, FALSE, data)
    IN  IF result.kind = "throw" THEN Fail(SchemaError)
        ELSE IF result.kind = "promise" THEN Fail(AsyncValidationError)
        ELSE IF ~result.success THEN Fail(ValidationError(result.issues, "insert"))
        ELSE Ok([key \in DOMAIN data \cap DOMAIN result.data |-> result.data[key]])

parse(s, data) ==
    LET result == SafeParse(s, FALSE, data)
    IN  IF result.kind = "throw" THEN Fail(SchemaError)
        ELSE IF result.kind = "promise" THEN Fail(AsyncValidationError)
        ELSE IF ~result.success THEN Fail(ValidationError(result.issues, "insert"))
        ELSE Ok(result.data)

parsePartialUnfiltered(s, data) ==
    IF DOMAIN data = {} THEN Ok(EmptyDoc)
    ELSE LET result == SafeParse(s, TRUE, data)
         IN  IF result.kind = "throw" THEN Fail(SchemaError)
             ELSE IF result.kind = "promise" THEN Fail(AsyncValidationError)
             ELSE IF ~result.success
             THEN Fail(ValidationError(result.issues, "update"))
             ELSE Ok(result.data)

parsePartial(s, data) ==
    IF DOMAIN data = {} THEN Ok(EmptyDoc)
    ELSE LET inputKeys == DOMAIN data
             result == SafeParse(s, TRUE, data)
         IN  IF result.kind = "throw" THEN Fail(SchemaError)
             ELSE IF result.kind = "promise" THEN Fail(AsyncValidationError)
             ELSE IF ~result.success
             THEN Fail(ValidationError(result.issues, "update"))
             ELSE Ok([key \in inputKeys \cap DOMAIN result.data |-> result.data[key]])

parseReplaceTaggedInsert(s, data) ==
    LET result == SafeParse(s, FALSE, data)
    IN  IF result.kind = "throw" THEN Fail(SchemaError)
        ELSE IF result.kind = "promise" THEN Fail(AsyncValidationError)
        ELSE IF ~result.success THEN Fail(ValidationError(result.issues, "insert"))
        ELSE Ok(result.data)

parseReplace(s, data) ==
    LET result == SafeParse(s, FALSE, data)
    IN  IF result.kind = "throw" THEN Fail(SchemaError)
        ELSE IF result.kind = "promise" THEN Fail(AsyncValidationError)
        ELSE IF ~result.success THEN Fail(ValidationError(result.issues, "replace"))
        ELSE Ok(result.data)

\* getPartialSchema's effect on the relaxed-schema cache
getPartialSchema(s, pcache) == pcache \cup {s}

(***************************************************************************)
(* validation.ts: extractDefaults                                          *)
(***************************************************************************)
\* the declared defaults, whatever the validation of the empty input ends in
ComputeDefaultsIgnoringOutcome(s) ==
    [f \in {g \in DOMAIN Shape(s) : Shape(s)[g].hasDefault} |-> Shape(s)[f].default]

\* the empty input validated against the schema itself, not its relaxed variant
ComputeDefaultsFullSchema(s) ==
    LET result == SafeParse(s, FALSE, EmptyDoc)
    IN  IF result.kind # "result" \/ ~result.success THEN EmptyDoc
        ELSE [key \in {k \in DOMAIN result.data : result.data[k] # UNDEF}
                |-> result.data[key]]

\* the map computed on a cache miss
ComputeDefaults(s) ==
    LET result == SafeParse(s, TRUE, EmptyDoc)
    IN  IF result.kind = "throw" THEN EmptyDoc
        ELSE IF result.kind = "promise" THEN EmptyDoc
        ELSE IF ~result.success THEN EmptyDoc
        ELSE [key \in {k \in DOMAIN result.data : result.data[k] # UNDEF}
                |-> result.data[key]]

\* the map computed anew on every call
extractDefaultsAlwaysComputing(s, dcache) == ComputeDefaults(s)

extractDefaults(s, dcache) ==
    IF s \in DOMAIN dcache THEN dcache[s] ELSE ComputeDefaults(s)

\* the caches after extractDefaults(s)
DefaultsCacheAfter(s, dcache) ==
    IF s \in DOMAIN dcache THEN dcache
    ELSE IF SafeParse(s, TRUE, EmptyDoc).success
         THEN [k \in DOMAIN dcache \cup {s} |->
                 IF k = s THEN ComputeDefaults(s) ELSE dcache[k]]
         ELSE dcache

PartialCacheAfterExtract(s, dcache, pcache) ==
    IF s \in DOMAIN dcache THEN pcache ELSE getPartialSchema(s, pcache)

(***************************************************************************)
(* validation.ts: the field-provenance analysis                            *)
(***************************************************************************)
updateOperatorsWithoutSetOnInsert ==
    <<"$set", "$unset", "$inc", "$mul", "$rename", "$min", "$max",
      "$currentDate", "$push", "$pull", "$addToSet", "$pop", "$bit">>

updateOperators ==
    <<"$set", "$unset", "$inc", "$mul", "$rename", "$min", "$max",
      "$currentDate", "$push", "$pull", "$addToSet", "$pop", "$bit",
      "$setOnInsert">>

\* every key of the model's universe for which key.startsWith("$") holds
DollarKeys ==
    SeqToSet(updateOperators)
        \cup {"$pullAll", "$and", "$or", "$nor", "$eq", "$ne", "$in"}

StartsWithDollar(key) == key \in DollarKeys

getModifiedFieldsSetOnly(update) ==
    IF "$set" \in DOMAIN update THEN DOMAIN update["$set"] ELSE {}

getModifiedFields(update) ==
    UNION {DOMAIN update[op] : op \in SeqToSet(updateOperators) \cap DOMAIN update}

RECURSIVE collect(_)
collect(node) ==
    LET entry(key, value) ==
            IF StartsWithDollar(key)
            THEN IF value.t = "arr"
                 THEN UNION {collect(value.arr[i].obj) :
                               i \in {j \in DOMAIN value.arr : value.arr[j].t = "obj"}}
                 ELSE IF value.t = "obj" THEN collect(value.obj)
                 ELSE {}
            ELSE IF value.t = "obj"
                 THEN LET keys == DOMAIN value.obj
                          hasOperator == \E k \in keys : StartsWithDollar(k)
                      IN  IF hasOperator
                          THEN IF "$eq" \in keys THEN {key} ELSE {}
                          ELSE {key}
                 ELSE {key}
    IN  UNION {entry(key, node[key]) : key \in DOMAIN node}

\* only the fields the filter gives a literal for
getEqualityFieldsLiteralOnly(filter) ==
    {f \in DOMAIN filter : ~StartsWithDollar(f) /\ filter[f].t = "lit"}

\* every pinned field but those whose predicate is a sub-document without an
\* operator key
getEqualityFieldsSkippingDocuments(filter) ==
    {f \in collect(filter) :
        ~(/\ f \in DOMAIN filter
          /\ filter[f].t = "obj"
          /\ \A k \in DOMAIN filter[f].obj : ~StartsWithDollar(k))}

getEqualityFields(filter) == collect(filter)

(***************************************************************************)
(* validation.ts: applyDefaultsForUpsert                                   *)
(***************************************************************************)
\* the defaults written into $set instead of the insert-only section
applyDefaultsIntoSet(defaults, query, update) ==
    IF DOMAIN defaults = {} THEN update
    ELSE LET modifiedFields == getModifiedFields(update)
             filterEqualityFields == getEqualityFields(query)
             setOnInsert ==
                 [field \in {f \in DOMAIN defaults :
                               f \notin modifiedFields /\ f \notin filterEqualityFields}
                     |-> defaults[field]]
         IN  Spread(update,
                    "$set" :> Spread(IF "$set" \in DOMAIN update
                                     THEN update["$set"] ELSE EmptyDoc,
                                     setOnInsert))

\* the insert-only section written even when no default is left to add
applyDefaultsAlwaysMerging(defaults, query, update) ==
    IF DOMAIN defaults = {} THEN update
    ELSE LET modifiedFields == getModifiedFields(update)
             filterEqualityFields == getEqualityFields(query)
             setOnInsert ==
                 [field \in {f \in DOMAIN defaults :
                               f \notin modifiedFields /\ f \notin filterEqualityFields}
                     |-> defaults[field]]
         IN  Spread(update,
                    "$setOnInsert" :>
                        Spread(IF "$setOnInsert" \in DOMAIN update
                               THEN update["$setOnInsert"] ELSE EmptyDoc,
                               setOnInsert))

applyDefaultsWith(defaults, query, update) ==
    IF DOMAIN defaults = {} THEN update
    ELSE LET modifiedFields == getModifiedFields(update)
             filterEqualityFields == getEqualityFields(query)
             setOnInsert ==
                 [field \in {f \in DOMAIN defaults :
                               f \notin modifiedFields /\ f \notin filterEqualityFields}
                     |-> defaults[field]]
         IN  IF DOMAIN setOnInsert # {}
             THEN Spread(update,
                         "$setOnInsert" :>
                             Spread(IF "$setOnInsert" \in DOMAIN update
                                    THEN update["$setOnInsert"] ELSE EmptyDoc,
                                    setOnInsert))
             ELSE update

applyDefaultsForUpsert(s, query, update, dcache) ==
    applyDefaultsWith(extractDefaults(s, dcache), query, update)

\* the caller's filter and operator document once applyDefaultsForUpsert has
\* returned: it reads them and builds its result with spreads
ArgumentsAfter(s, query, update, dcache) == [query |-> query, update |-> update]

(***************************************************************************)
(* The store driver, at the boundary the entry points call it through.     *)
(* Only the operators the entry points send ($set, $setOnInsert) are       *)
(* interpreted.  No stored value is an embedded document or an array.      *)
(***************************************************************************)
ServerError ==
    [kind |-> "MongoServerError", operation |-> "", issues |-> <<>>, uri |-> ""]

\* the driver serialises an undefined value as null
ToBson(doc) == [k \in DOMAIN doc |-> IF doc[k] = UNDEF THEN "null" ELSE doc[k]]

NewId(st) == "id" \o ToString(Len(st) + 1)

WithId(st, doc) ==
    IF Get(doc, "_id") = UNDEF THEN Spread(ToBson(Without(doc, "_id")), "_id" :> NewId(st))
    ELSE ToBson(doc)

StoreResult(st, err, matched, upserted) ==
    [st |-> st, err |-> err, matched |-> matched, upserted |-> upserted]

\* the paths with a dot that occur in filters and operator documents, as
\* <<field, sub-field>>
DottedPaths == "category.x" :> <<"category", "x">>

\* a stored embedded document with one field, as a value
EmbeddedDoc(o) ==
    LET k == CHOOSE x \in DOMAIN o : TRUE
    IN  "{" \o k \o ":" \o o[k].lit \o "}"

\* the field a filter path lies in and the value that field holds when the path
\* holds v
Pin(path, v) ==
    IF path \in DOMAIN DottedPaths
    THEN <<DottedPaths[path][1], EmbeddedDoc(DottedPaths[path][2] :> Lit(v))>>
    ELSE <<path, v>>

RECURSIVE Matches(_, _)
Matches(doc, node) ==
    LET opHolds(key, op, arg) ==
            CASE op = "$eq" -> arg.t = "lit" /\ Get(doc, key) = arg.lit
              [] op = "$ne" -> ~(arg.t = "lit" /\ Get(doc, key) = arg.lit)
              [] op = "$in" -> \E i \in DOMAIN arg.arr :
                                   arg.arr[i].t = "lit" /\ Get(doc, key) = arg.arr[i].lit
              [] OTHER -> FALSE
        entry(key, value) ==
            CASE key = "$and" -> \A i \in DOMAIN value.arr : Matches(doc, value.arr[i].obj)
              [] key = "$or"  -> \E i \in DOMAIN value.arr : Matches(doc, value.arr[i].obj)
              [] key = "$nor" -> ~\E i \in DOMAIN value.arr : Matches(doc, value.arr[i].obj)
              [] OTHER ->
                    IF value.t = "lit"
                    THEN Get(doc, Pin(key, value.lit)[1]) = Pin(key, value.lit)[2]
                    ELSE IF value.t = "obj"
                         THEN IF \E k \in DOMAIN value.obj : StartsWithDollar(k)
                              THEN \A k \in DOMAIN value.obj :
                                       opHolds(key, k, value.obj[k])
                              ELSE Get(doc, key) = EmbeddedDoc(value.obj)
                         ELSE FALSE
    IN  \A key \in DOMAIN node : entry(key, node[key])

\* the fields an upsert takes from the filter: equality clauses, also under $and
RECURSIVE SeedPairs(_)
SeedPairs(node) ==
    LET entry(key, value) ==
            IF key = "$and"
            THEN UNION {SeedPairs(value.arr[i].obj) : i \in DOMAIN value.arr}
            ELSE IF StartsWithDollar(key) THEN {}
            ELSE IF value.t = "lit" THEN {Pin(key, value.lit)}
            ELSE IF value.t = "obj" /\ "$eq" \in DOMAIN value.obj
                 THEN {<<key, value.obj["$eq"].lit>>}
            ELSE IF value.t = "obj" /\ ~\E k \in DOMAIN value.obj : StartsWithDollar(k)
                 THEN {<<key, EmbeddedDoc(value.obj)>>}
                 ELSE {}
    IN  UNION {entry(key, node[key]) : key \in DOMAIN node}

EqualitySeed(filter) ==
    LET pairs == SeedPairs(filter)
    IN  [f \in {p[1] : p \in pairs} |-> (CHOOSE p \in pairs : p[1] = f)[2]]

MatchingIndexes(st, filter) == {i \in DOMAIN st : Matches(st[i], filter)}

Min(S) == CHOOSE x \in S : \A y \in S : x <= y

StoreInsertOne(st, doc) ==
    IF \E i \in DOMAIN st : st[i]["_id"] = Get(doc, "_id")
    THEN StoreResult(st, ServerError, 0, 0)
    ELSE StoreResult(Append(st, WithId(st, doc)), NoError, 0, 1)

RECURSIVE StoreInsertMany(_, _)
StoreInsertMany(st, docs) ==
    IF docs = <<>> THEN StoreResult(st, NoError, 0, 0)
    ELSE LET first == StoreInsertOne(st, Head(docs))
         IN  IF first.err # NoError THEN first
             ELSE LET rest == StoreInsertMany(first.st, Tail(docs))
                  IN  [rest EXCEPT !.upserted = @ + 1]

\* updateOne (many = FALSE) and updateMany (many = TRUE)
StoreUpdate(st, filter, update, upsert, many) ==
    LET set == IF "$set" \in DOMAIN update THEN update["$set"] ELSE EmptyDoc
        soi == IF "$setOnInsert" \in DOMAIN update
               THEN update["$setOnInsert"] ELSE EmptyDoc
        hit == MatchingIndexes(st, filter)
        targets == IF many \/ hit = {} THEN hit ELSE {Min(hit)}
    IN  IF DOMAIN set \cap DOMAIN soi # {}
        THEN StoreResult(st, ServerError, 0, 0)
        ELSE IF hit # {}
        THEN StoreResult([i \in DOMAIN st |->
                            IF i \in targets THEN Spread(st[i], ToBson(set)) ELSE st[i]],
                         NoError, Cardinality(targets), 0)
        ELSE IF upsert
        THEN StoreResult(
                 Append(st, WithId(st, Spread(Spread(EqualitySeed(filter), set), soi))),
                 NoError, 0, 1)
        ELSE StoreResult(st, NoError, 0, 0)

StoreReplaceOne(st, filter, doc, upsert) ==
    LET hit == MatchingIndexes(st, filter)
        i == Min(hit)
    IN  IF hit # {}
        THEN IF "_id" \in DOMAIN doc /\ doc["_id"] # st[i]["_id"]
             THEN StoreResult(st, ServerError, 0, 0)
             ELSE StoreResult([st EXCEPT ![i] =
                                  Spread(ToBson(doc), "_id" :> st[i]["_id"])],
                              NoError, 1, 0)
        ELSE IF upsert
        THEN LET seed == EqualitySeed(filter)
                 withSeedId == IF "_id" \in DOMAIN seed /\ "_id" \notin DOMAIN doc
                               THEN Spread(doc, "_id" :> seed["_id"]) ELSE doc
             IN  StoreResult(Append(st, WithId(st, withSeedId)), NoError, 0, 1)
        ELSE StoreResult(st, NoError, 0, 0)

(***************************************************************************)
(* Inputs the calls are drawn from                                         *)
(***************************************************************************)
\* every document that gives some of the fields one of the listed values
PartialDocs(vals) ==
    UNION {{d \in [K -> UNION {vals[k] : k \in K}] : \A k \in K : d[k] \in vals[k]} :
             K \in SUBSET DOMAIN vals}

ProductVals ==
    [name |-> {"X"}, price |-> {"5", "-1"}, category |-> {"special", UNDEF}]

\* changes passed to update / updateOne
ProductUpdateVals == [price |-> {"7", "-1"}, category |-> {"special", UNDEF}]

UserUpdateVals == [email |-> {"a@b", "bad"}, age |-> {"5", "-1"}]

UserVals ==
    [name |-> {"X", ""}, email |-> {"a@b", "bad"}, age |-> {"-1"}]

ProductInputs == PartialDocs(ProductVals)
UserInputs == PartialDocs(UserVals)

Inputs(s) == IF s = "product" THEN ProductInputs ELSE UserInputs

\* documents and changes for the schemas with a produced date
EventInputs == PartialDocs([name |-> {"X", "Y"}, createdAt |-> {Stamp(1)}])

ProductUpdateInputs == PartialDocs(ProductUpdateVals)

UserUpdateInputs == PartialDocs(UserUpdateVals)

\* inputs for the schemas whose validation does not end in a plain result
FlagInputs == PartialDocs([name |-> {"X"}, flag |-> {"false"}])
PrefaultInputs == PartialDocs([name |-> {"X"}, code |-> {"special", "bad"}])

ProbeInputs(s) == IF s = "prefaultSchema" THEN PrefaultInputs ELSE FlagInputs

GatewayInputs(s) == IF s \in ProbeSchemas THEN ProbeInputs(s) ELSE Inputs(s)

UpdateInputs(s) ==
    CASE s = "product" -> ProductUpdateInputs
      [] s = "user" -> UserUpdateInputs
      [] OTHER -> ProbeInputs(s)

\* replacement payloads may carry the identifier of the document they were read from
ProductReplaceInputs ==
    ProductInputs \cup
        {Spread(d, "_id" :> "id9") :
           d \in {e \in ProductInputs : {"name", "price"} \subseteq DOMAIN e}}
UserReplaceInputs ==
    UserInputs \cup
        {Spread(d, "_id" :> "id9") :
           d \in {e \in UserInputs : {"name", "email"} \subseteq DOMAIN e}}

ReplaceInputs(s) == IF s = "product" THEN ProductReplaceInputs ELSE UserReplaceInputs

\* inputs of the direct calls: also a stored non-default flag, a valid optional
\* field and a key the schema does not declare
ProductPureInputs ==
    PartialDocs([name |-> {"X"}, price |-> {"5", "-1"},
                 category |-> {"special", UNDEF}, inStock |-> {"false", UNDEF},
                 nickname |-> {"Z"}])
UserPureInputs ==
    PartialDocs([name |-> {"X", ""}, email |-> {"a@b", "bad"},
                 age |-> {"5", "-1", UNDEF}, nickname |-> {"Z"}])

PureInputs(s) == IF s = "product" THEN ProductPureInputs ELSE UserPureInputs

BatchInputs(s) ==
    IF s = "product"
    THEN {[name |-> "X", price |-> "5"],
          [name |-> "X", price |-> "5", category |-> "special"],
          [name |-> "X", price |-> "-1"]}
    ELSE {[name |-> "X", email |-> "a@b"],
          [name |-> "X", email |-> "a@b", age |-> "5", nickname |-> "Z"],
          [name |-> "", email |-> "bad"]}

ProductBatches == UNION {[1..n -> BatchInputs("product")] : n \in 1..MaxBatch}
UserBatches == UNION {[1..n -> BatchInputs("user")] : n \in 1..MaxBatch}

Batches(s) == IF s = "product" THEN ProductBatches ELSE UserBatches

FilterAll == EmptyDoc
FilterName == "name" :> Lit("X")
FilterNameY == "name" :> Lit("Y")
FilterCategory == "category" :> Lit("special")
FilterCategoryEq == "category" :> Obj("$eq" :> Lit("special"))
FilterCategoryNe == "category" :> Obj("$ne" :> Lit("general"))
FilterCategoryIn == "category" :> Obj("$in" :> Arr(<<Lit("special"), Lit("Y")>>))
FilterCategoryMixed ==
    "category" :> Obj(("$eq" :> Lit("special")) @@ ("$ne" :> Lit("general")))
\* an embedded document without operator keys, and a path into one
FilterCategoryDoc == "category" :> Obj("x" :> Lit("1"))
FilterCategoryPath == "category.x" :> Lit("1")
FilterAnd ==
    "$and" :> Arr(<<Obj("name" :> Lit("Y")), Obj("category" :> Lit("special"))>>)
FilterOr ==
    "$or" :> Arr(<<Obj("category" :> Lit("special")), Obj("category" :> Lit("Y"))>>)
FilterNor == "$nor" :> Arr(<<Obj("inStock" :> Lit("false"))>>)

Filters ==
    {FilterAll, FilterName, FilterNameY, FilterCategory, FilterCategoryEq,
     FilterCategoryNe, FilterCategoryIn, FilterCategoryMixed, FilterCategoryDoc,
     FilterCategoryPath, FilterAnd, FilterOr, FilterNor}

\* operator documents for direct calls of applyDefaultsForUpsert
OperatorDocs ==
    LET pick(op, docs) == {EmptyDoc} \cup {op :> d : d \in docs}
    IN  {Spread(Spread(Spread(a, b), c), d) :
           a \in pick("$set", {[name |-> "X"], [name |-> "X", category |-> "special"],
                               "category.x" :> "1"}),
           b \in pick("$setOnInsert",
                      {[inStock |-> "false"], [age |-> "5"],
                       [category |-> "special", inStock |-> "false"]}),
           c \in pick("$inc", {[price |-> "5"], [inStock |-> "5"]}),
           d \in pick("$pullAll", {[category |-> "special"]})}

(***************************************************************************)
(* State                                                                   *)
(***************************************************************************)
\* let connection: Connection | null = null
NoConnection == [client |-> 0, db |-> ""]

NoHealth ==
    [healthy |-> FALSE, connected |-> FALSE, responseTimeMs |-> UNDEF, error |-> UNDEF]

NoTx == [pc |-> "none", session |-> 0, work |-> <<>>, pre |-> <<>>, writes |-> <<>>]

\* a key specification is the sequence of its (field, direction) entries
IdIndex == "_id_" :> <<(<<"_id", "1">>)>>

NoCall ==
    [op |-> "none", schema |-> "product", filter |-> EmptyDoc, data |-> EmptyDoc,
     batch |-> <<>>, update |-> EmptyDoc, upsert |-> FALSE, pre |-> <<>>,
     err |-> NoError, call |-> "none", sentDoc |-> EmptyDoc, sentDocs |-> <<>>,
     sentUpdate |-> EmptyDoc, sentUpsert |-> FALSE, matched |-> 0, upserted |-> 0,
     defaults |-> EmptyDoc, resultDoc |-> EmptyDoc, resultUpdate |-> EmptyDoc,
     uri |-> "", dbName |-> "", conn |-> NoConnection, preConn |-> NoConnection,
     preOpened |-> 0, health |-> NoHealth, session |-> 0, writes |-> <<>>,
     declared |-> <<>>, preIndexes |-> EmptyDoc, dropped |-> <<>>, created |-> <<>>,
     names |-> <<>>, callback |-> [value |-> UNDEF, err |-> NoError],
     returned |-> UNDEF,
     before |-> [op |-> "none", declared |-> <<>>, err |-> NoError],
     argsAfter |-> [query |-> EmptyDoc, update |-> EmptyDoc]]

\* the state the CRUD entry points run in: connect() has succeeded and the Model
\* was constructed on its database
Connected ==
    /\ connection = [client |-> 1, db |-> "test_db"]
    /\ opened = 1
    /\ pending = {}
    /\ sessions = <<>>
    /\ tx = NoTx
    /\ indexes = IdIndex
    /\ syncing = <<>>

Init ==
    /\ model \in Schemas
    /\ store = <<>>
    /\ partialSchemaCache = {}
    /\ defaultsCache = EmptyDoc
    /\ nops = 0
    /\ last = NoCall
    /\ now = 1
    /\ Connected

Thrown(call, err) == [call EXCEPT !.err = err]

Returned(call, driverCall, res) ==
    [call EXCEPT !.call = driverCall, !.err = res.err,
                 !.matched = res.matched, !.upserted = res.upserted]

(***************************************************************************)
(* core CRUD entry points                                                  *)
(***************************************************************************)
insertOne(data) ==
    LET call == [NoCall EXCEPT !.op = "insertOne", !.schema = model,
                               !.data = data, !.pre = store]
        validatedData == parse(model, data)
        res == StoreInsertOne(store, validatedData.data)
    IN  /\ nops' = nops + 1
        /\ UNCHANGED <<now, clientVars, model, partialSchemaCache, defaultsCache>>
        /\ IF validatedData.err # NoError
           THEN /\ last' = Thrown(call, validatedData.err)
                /\ store' = store
           ELSE /\ last' = [Returned(call, "insertOne", res)
                               EXCEPT !.sentDoc = validatedData.data]
                /\ store' = res.st

\* each element validated and inserted in turn
insertManyOneByOne(batch) ==
    LET call == [NoCall EXCEPT !.op = "insertMany", !.schema = model,
                               !.batch = batch, !.pre = store]
        results == [i \in DOMAIN batch |-> parse(model, batch[i])]
        failed == {i \in DOMAIN batch : results[i].err # NoError}
        upto == IF failed = {} THEN Len(batch) ELSE Min(failed) - 1
        validatedData == [i \in 1..upto |-> results[i].data]
        res == StoreInsertMany(store, validatedData)
    IN  /\ nops' = nops + 1
        /\ UNCHANGED <<now, clientVars, model, partialSchemaCache, defaultsCache>>
        /\ store' = res.st
        /\ IF failed # {}
           THEN last' = [Thrown(call, results[Min(failed)].err)
                            EXCEPT !.call = IF upto > 0 THEN "insertOne" ELSE "none"]
           ELSE last' = [Returned(call, "insertMany", res)
                            EXCEPT !.sentDocs = validatedData]

insertMany(batch) ==
    LET call == [NoCall EXCEPT !.op = "insertMany", !.schema = model,
                               !.batch = batch, !.pre = store]
        results == [i \in DOMAIN batch |-> parse(model, batch[i])]
        failed == {i \in DOMAIN batch : results[i].err # NoError}
        validatedData == [i \in DOMAIN batch |-> results[i].data]
        res == StoreInsertMany(store, validatedData)
    IN  /\ nops' = nops + 1
        /\ UNCHANGED <<now, clientVars, model, partialSchemaCache, defaultsCache>>
        /\ IF failed # {}
           THEN /\ last' = Thrown(call, results[Min(failed)].err)
                /\ store' = store
           ELSE /\ last' = [Returned(call, "insertMany", res)
                               EXCEPT !.sentDocs = validatedData]
                /\ store' = res.st

\* defaults added whether or not the call is an upsert
buildUpdateDocAlways(s, query, validated, upsert, dcache) ==
    applyDefaultsForUpsert(s, query, "$set" :> validated, dcache)

\* let updateDoc = { $set: validatedData }; if (options?.upsert) updateDoc = ...
buildUpdateDoc(s, query, validated, upsert, dcache) ==
    IF upsert THEN applyDefaultsForUpsert(s, query, "$set" :> validated, dcache)
    ELSE "$set" :> validated

\* the body shared by update (many = TRUE) and updateOne (many = FALSE)
UpdateBody(op, many, query, data, upsert) ==
    LET call == [NoCall EXCEPT !.op = op, !.schema = model, !.filter = query,
                               !.data = data, !.upsert = upsert, !.pre = store]
        validatedData == parsePartial(model, data)
        parsed == DOMAIN data # {}
        updateDoc == buildUpdateDoc(model, query, validatedData.data, upsert,
                                    defaultsCache)
        res == StoreUpdate(store, query, updateDoc, upsert, many)
        pcache == IF parsed THEN getPartialSchema(model, partialSchemaCache)
                  ELSE partialSchemaCache
    IN  /\ nops' = nops + 1
        /\ UNCHANGED <<now, clientVars, model>>
        /\ IF validatedData.err # NoError
           THEN /\ last' = Thrown(call, validatedData.err)
                /\ partialSchemaCache' = pcache
                /\ UNCHANGED <<store, defaultsCache>>
           ELSE /\ last' = [Returned(call, IF many THEN "updateMany" ELSE "updateOne", res)
                               EXCEPT !.sentUpdate = updateDoc, !.sentUpsert = upsert,
                                      !.defaults =
                                          IF upsert
                                          THEN extractDefaults(model, defaultsCache)
                                          ELSE EmptyDoc]
                /\ store' = res.st
                /\ IF upsert
                   THEN /\ defaultsCache' = DefaultsCacheAfter(model, defaultsCache)
                        /\ partialSchemaCache' =
                               PartialCacheAfterExtract(model, defaultsCache, pcache)
                   ELSE /\ defaultsCache' = defaultsCache
                        /\ partialSchemaCache' = pcache

update(query, data, upsert) == UpdateBody("update", TRUE, query, data, upsert)

updateOne(query, data, upsert) == UpdateBody("updateOne", FALSE, query, data, upsert)

replaceOneKeepingId(query, data, upsert) ==
    LET call == [NoCall EXCEPT !.op = "replaceOne", !.schema = model,
                               !.filter = query, !.data = data,
                               !.upsert = upsert, !.pre = store]
        validatedData == parseReplace(model, data)
        res == StoreReplaceOne(store, query, validatedData.data, upsert)
    IN  /\ nops' = nops + 1
        /\ UNCHANGED <<now, clientVars, model, partialSchemaCache, defaultsCache>>
        /\ IF validatedData.err # NoError
           THEN /\ last' = Thrown(call, validatedData.err)
                /\ store' = store
           ELSE /\ last' = [Returned(call, "replaceOne", res)
                               EXCEPT !.sentDoc = validatedData.data,
                                      !.sentUpsert = upsert]
                /\ store' = res.st

replaceOne(query, data, upsert) ==
    LET call == [NoCall EXCEPT !.op = "replaceOne", !.schema = model,
                               !.filter = query, !.data = data,
                               !.upsert = upsert, !.pre = store]
        validatedData == parseReplace(model, data)
        withoutId == Without(validatedData.data, "_id")
        res == StoreReplaceOne(store, query, withoutId, upsert)
    IN  /\ nops' = nops + 1
        /\ UNCHANGED <<now, clientVars, model, partialSchemaCache, defaultsCache>>
        /\ IF validatedData.err # NoError
           THEN /\ last' = Thrown(call, validatedData.err)
                /\ store' = store
           ELSE /\ last' = [Returned(call, "replaceOne", res)
                               EXCEPT !.sentDoc = withoutId, !.sentUpsert = upsert]
                /\ store' = res.st

(***************************************************************************)
(* direct calls of the exported validation functions                       *)
(***************************************************************************)
CallApplyDefaultsForUpsert(s, query, upd) ==
    /\ last' = [NoCall EXCEPT !.op = "applyDefaultsForUpsert", !.schema = s,
                              !.filter = query, !.update = upd, !.pre = store,
                              !.defaults = extractDefaults(s, defaultsCache),
                              !.resultUpdate =
                                  applyDefaultsForUpsert(s, query, upd, defaultsCache),
                              !.argsAfter =
                                  ArgumentsAfter(s, query, upd, defaultsCache)]
    /\ defaultsCache' = DefaultsCacheAfter(s, defaultsCache)
    /\ partialSchemaCache' =
           PartialCacheAfterExtract(s, defaultsCache, partialSchemaCache)
    /\ UNCHANGED <<now, clientVars, model, store, nops>>

CallParsePartial(s, data) ==
    LET r == parsePartial(s, data)
    IN  /\ last' = [NoCall EXCEPT !.op = "parsePartial", !.schema = s, !.data = data,
                                  !.pre = store, !.err = r.err, !.resultDoc = r.data]
        /\ partialSchemaCache' =
               IF DOMAIN data # {} THEN getPartialSchema(s, partialSchemaCache)
               ELSE partialSchemaCache
        /\ UNCHANGED <<now, clientVars, model, store, defaultsCache, nops>>

CallParse(s, data) ==
    LET r == parse(s, data)
    IN  /\ last' = [NoCall EXCEPT !.op = "parse", !.schema = s, !.data = data,
                                  !.pre = store, !.err = r.err, !.resultDoc = r.data]
        /\ UNCHANGED <<now, clientVars, model, store, partialSchemaCache, defaultsCache, nops>>

CallParseReplace(s, data) ==
    LET r == parseReplace(s, data)
    IN  /\ last' = [NoCall EXCEPT !.op = "parseReplace", !.schema = s, !.data = data,
                                  !.pre = store, !.err = r.err, !.resultDoc = r.data]
        /\ UNCHANGED <<now, clientVars, model, store, partialSchemaCache, defaultsCache, nops>>

CallExtractDefaults(s) ==
    /\ last' = [NoCall EXCEPT !.op = "extractDefaults", !.schema = s, !.pre = store,
                              !.resultDoc = extractDefaults(s, defaultsCache)]
    /\ defaultsCache' = DefaultsCacheAfter(s, defaultsCache)
    /\ partialSchemaCache' =
           PartialCacheAfterExtract(s, defaultsCache, partialSchemaCache)
    /\ UNCHANGED <<now, clientVars, model, store, nops>>

(***************************************************************************)
(* client: connect, disconnect, getDb, getConnection, sessions, healthCheck *)
(***************************************************************************)
Uris == {"mongodb://up", "mongodb://down"}

DbNames == {"test_db", "other_db"}

\* whether client.connect() resolves for the target
Reachable(uri) == uri = "mongodb://up"

getConnection == connection

\* the state of the model layer, which the client module leaves alone
crudVars == <<model, store, partialSchemaCache, defaultsCache, nops, now>>

\* connect() that stores every new client, connected or not
connectStartAlwaysNew(uri, dbName) ==
    /\ opened < MaxClients
    /\ opened' = opened + 1
    /\ pending' = pending \cup
           {[client |-> opened + 1, uri |-> uri, dbName |-> dbName,
             preConn |-> connection, preOpened |-> opened]}
    /\ UNCHANGED <<last, connection, sessions, tx, indexes, syncing, crudVars>>

\* connect() up to its await: the existing connection is returned at once,
\* otherwise a new MongoClient starts connecting
connectStart(uri, dbName) ==
    IF connection # NoConnection
    THEN /\ last' = [NoCall EXCEPT !.op = "connect", !.uri = uri, !.dbName = dbName,
                                   !.preConn = connection, !.preOpened = opened,
                                   !.conn = connection]
         /\ UNCHANGED <<now, clientVars, crudVars>>
    ELSE /\ opened < MaxClients
         /\ opened' = opened + 1
         /\ pending' = pending \cup
                {[client |-> opened + 1, uri |-> uri, dbName |-> dbName,
                  preConn |-> connection, preOpened |-> opened]}
         /\ UNCHANGED <<last, connection, sessions, tx, indexes, syncing, crudVars>>

\* a failed connect() that keeps the unconnected client as the connection
connectFinishKeepingFailed(p) ==
    /\ p \in pending
    /\ pending' = pending \ {p}
    /\ connection' = [client |-> p.client, db |-> p.dbName]
    /\ last' = [NoCall EXCEPT !.op = "connect", !.uri = p.uri, !.dbName = p.dbName,
                              !.preConn = p.preConn, !.preOpened = p.preOpened,
                              !.conn = IF Reachable(p.uri) THEN connection'
                                       ELSE NoConnection,
                              !.err = IF Reachable(p.uri) THEN NoError
                                      ELSE ConnectionError(p.uri)]
    /\ UNCHANGED <<opened, sessions, tx, indexes, syncing, crudVars>>

\* connect() after client.connect() has settled
connectFinish(p) ==
    /\ p \in pending
    /\ pending' = pending \ {p}
    /\ IF Reachable(p.uri)
       THEN /\ connection' = [client |-> p.client, db |-> p.dbName]
            /\ last' = [NoCall EXCEPT !.op = "connect", !.uri = p.uri,
                                      !.dbName = p.dbName, !.preConn = p.preConn,
                                      !.preOpened = p.preOpened,
                                      !.conn = connection']
       ELSE /\ connection' = connection
            /\ last' = [NoCall EXCEPT !.op = "connect", !.uri = p.uri,
                                      !.dbName = p.dbName, !.preConn = p.preConn,
                                      !.preOpened = p.preOpened,
                                      !.err = ConnectionError(p.uri)]
    /\ UNCHANGED <<opened, sessions, tx, indexes, syncing, crudVars>>

disconnect ==
    /\ connection' = NoConnection
    /\ last' = [NoCall EXCEPT !.op = "disconnect", !.preConn = connection,
                              !.preOpened = opened]
    /\ UNCHANGED <<opened, pending, sessions, tx, indexes, syncing, crudVars>>

getDb ==
    /\ last' = IF connection = NoConnection
               THEN [NoCall EXCEPT !.op = "getDb", !.preConn = connection,
                                   !.preOpened = opened,
                                   !.err = ConnectionError(UNDEF)]
               ELSE [NoCall EXCEPT !.op = "getDb", !.preConn = connection,
                                   !.preOpened = opened, !.conn = connection]
    /\ UNCHANGED <<now, clientVars, crudVars>>

\* new Model(collectionName, schema): the constructor calls getDb()
NewModel(s) ==
    /\ last' = IF connection = NoConnection
               THEN [NoCall EXCEPT !.op = "Model", !.schema = s,
                                   !.preConn = connection, !.preOpened = opened,
                                   !.err = ConnectionError(UNDEF)]
               ELSE [NoCall EXCEPT !.op = "Model", !.schema = s,
                                   !.preConn = connection, !.preOpened = opened,
                                   !.conn = connection]
    /\ model' = IF connection = NoConnection THEN model ELSE s
    /\ UNCHANGED <<now, clientVars, store, partialSchemaCache, defaultsCache, nops>>

NewSession(ss, client) == Append(ss, [client |-> client, ended |-> 0])

startSession ==
    IF getConnection = NoConnection
    THEN /\ last' = [NoCall EXCEPT !.op = "startSession", !.preConn = connection,
                                   !.preOpened = opened,
                                   !.err = ConnectionError(UNDEF)]
         /\ UNCHANGED <<now, clientVars, crudVars>>
    ELSE /\ Len(sessions) < MaxSessions
         /\ sessions' = NewSession(sessions, connection.client)
         /\ last' = [NoCall EXCEPT !.op = "startSession", !.preConn = connection,
                                   !.preOpened = opened, !.conn = connection,
                                   !.session = Len(sessions) + 1]
         /\ UNCHANGED <<connection, opened, pending, tx, indexes, syncing, crudVars>>

EndedOnce(ss, id) == [ss EXCEPT ![id].ended = @ + 1]

endSession(id) ==
    /\ id \in DOMAIN sessions
    /\ sessions[id].ended = 0
    /\ sessions' = EndedOnce(sessions, id)
    /\ last' = [NoCall EXCEPT !.op = "endSession", !.preConn = connection,
                              !.preOpened = opened, !.session = id]
    /\ UNCHANGED <<connection, opened, pending, tx, indexes, syncing, crudVars>>

\* a health check that reports a connection it did not look for
healthCheckResultAssumingConnection(conn, pingOk) ==
    IF pingOk /\ conn # NoConnection
    THEN [healthy |-> TRUE, connected |-> TRUE, responseTimeMs |-> "0",
          error |-> UNDEF]
    ELSE [healthy |-> FALSE, connected |-> TRUE, responseTimeMs |-> UNDEF,
          error |-> "ping failed"]

healthCheckResult(conn, pingOk) ==
    IF conn = NoConnection
    THEN [healthy |-> FALSE, connected |-> FALSE, responseTimeMs |-> UNDEF,
          error |-> "No active connection. Call connect() first."]
    ELSE IF pingOk
    THEN [healthy |-> TRUE, connected |-> TRUE, responseTimeMs |-> "0",
          error |-> UNDEF]
    ELSE [healthy |-> FALSE, connected |-> TRUE, responseTimeMs |-> UNDEF,
          error |-> "ping failed"]

\* pingOk: whether connection.db.admin().ping() resolves
healthCheck(pingOk) ==
    /\ last' = [NoCall EXCEPT !.op = "healthCheck", !.preConn = connection,
                              !.preOpened = opened,
                              !.health = healthCheckResult(getConnection, pingOk)]
    /\ UNCHANGED <<now, clientVars, crudVars>>

(***************************************************************************)
(* withTransaction: the callback's steps run between its start and its exit *)
(***************************************************************************)
CallbackValues == {"done", UNDEF}

\* startSession() and the beginning of session.withTransaction: the writes of
\* the callback go to the transaction's view of the collection
withTransactionStart ==
    IF getConnection = NoConnection
    THEN /\ last' = [NoCall EXCEPT !.op = "withTransaction", !.schema = model,
                                   !.pre = store, !.preConn = connection,
                                   !.preOpened = opened,
                                   !.err = ConnectionError(UNDEF)]
         /\ UNCHANGED <<now, clientVars, crudVars>>
    ELSE /\ Len(sessions) < MaxSessions
         /\ sessions' = NewSession(sessions, connection.client)
         /\ tx' = [pc |-> "callback", session |-> Len(sessions) + 1,
                   work |-> store, pre |-> store, writes |-> <<>>]
         /\ UNCHANGED <<last, connection, opened, pending, indexes, syncing, crudVars>>

\* the store after a transaction that leaves its writes in place when its
\* callback throws
sessionWithTransactionNeverAborting(st, work, threw) == work

\* session.withTransaction(fn): commits when fn resolves, aborts when it throws
sessionWithTransaction(st, work, threw) == IF threw THEN st ELSE work

\* cleanup that runs only after a successful transaction
finallyEndSessionOnSuccessOnly(ss, id, threw) ==
    IF threw THEN ss ELSE EndedOnce(ss, id)

\* finally { await endSession(session) }
finallyEndSession(ss, id, threw) == EndedOnce(ss, id)

\* the rest of withTransaction once the callback has settled with a value or an
\* error
withTransactionExit(value, err) ==
    LET threw == err # NoError
    IN  /\ store' = sessionWithTransaction(store, tx.work, threw)
        /\ sessions' = finallyEndSession(sessions, tx.session, threw)
        /\ tx' = NoTx
        /\ last' = [NoCall EXCEPT !.op = "withTransaction", !.schema = model,
                                  !.pre = tx.pre, !.preConn = connection,
                                  !.preOpened = opened, !.session = tx.session,
                                  !.writes = tx.writes,
                                  !.callback = [value |-> value, err |-> err],
                                  !.err = err,
                                  !.returned = IF threw THEN UNDEF ELSE value]
        /\ UNCHANGED <<connection, opened, pending, indexes, syncing, model,
                       partialSchemaCache, defaultsCache, nops, now>>

\* await Model.insertOne(data, { session }) inside the callback; the callback
\* lets a ValidationError propagate
TxInsertOne(data) ==
    LET validatedData == parse(model, data)
        res == StoreInsertOne(tx.work, validatedData.data)
    IN  /\ tx.pc = "callback"
        /\ Len(tx.writes) < MaxOps
        /\ IF validatedData.err # NoError
           THEN withTransactionExit(UNDEF, validatedData.err)
           ELSE /\ tx' = [tx EXCEPT !.work = res.st,
                                    !.writes = Append(@, res.st[Len(res.st)])]
                /\ UNCHANGED <<last, connection, opened, pending, sessions,
                               indexes, syncing, crudVars>>

\* throw new Error("Simulated error") in the callback
TxCallbackThrows ==
    /\ tx.pc = "callback"
    /\ withTransactionExit(UNDEF, SimulatedError)

TxCallbackReturns(value) ==
    /\ tx.pc = "callback"
    /\ withTransactionExit(value, NoError)

(***************************************************************************)
(* indexes: the collection's indexes as listIndexes reports them, name to key *)
(***************************************************************************)
Key(field, direction) == <<(<<field, direction>>)>>

\* index descriptions a model declares; name UNDEF when the caller omits it
Declarable ==
    {[key |-> Key("email", "1"), name |-> UNDEF],
     [key |-> Key("email", "-1"), name |-> "email_idx"],
     [key |-> Key("email", "1"), name |-> "email_idx"],
     [key |-> Key("name", "text"), name |-> UNDEF],
     [key |-> Key("name", "1") \o Key("age", "-1"), name |-> UNDEF]}

DeclaredLists ==
    {L \in UNION {[1..n -> Declarable] : n \in 1..MaxDeclared} :
        \A i, j \in DOMAIN L : i # j => L[i] # L[j]}

RECURSIVE generateIndexName(_)
generateIndexName(keys) ==
    IF keys = <<>> THEN ""
    ELSE LET entry == keys[1][1] \o "_" \o keys[1][2]
         IN  IF Len(keys) = 1 THEN entry
             ELSE entry \o "_" \o generateIndexName(Tail(keys))

\* the key the server reports for an index: the text fields of a text index
\* are reported as _fts and _ftsx, every other key as it was given
ServerKey(key) ==
    LET isText(e) == e[2] = "text"
        firstText == Min({i \in DOMAIN key : isText(key[i])})
    IN  IF \A i \in DOMAIN key : ~isText(key[i]) THEN key
        ELSE SelectSeq(SubSeq(key, 1, firstText - 1), LAMBDA e : ~isText(e))
             \o Key("_fts", "text") \o Key("_ftsx", "1")
             \o SelectSeq(SubSeq(key, firstText + 1, Len(key)),
                          LAMBDA e : ~isText(e))

\* the name an index gets: the given one, else the server's default
IndexName(index) ==
    IF index.name # UNDEF THEN index.name ELSE generateIndexName(index.key)

IndexResult(ix, err, names) == [ix |-> ix, err |-> err, names |-> names]

\* collection.createIndexes: an index that exists as described is left alone;
\* a name in use for another key, or a key indexed under another name, fails
\* the command and nothing is created
RECURSIVE createIndexesFrom(_, _, _)
createIndexesFrom(orig, ix, specs) ==
    IF specs = <<>> THEN IndexResult(ix, NoError, <<>>)
    ELSE LET n == IndexName(Head(specs))
             k == ServerKey(Head(specs).key)
         IN  IF \/ n \in DOMAIN ix /\ ix[n] # k
                \/ \E m \in DOMAIN ix \ {n} : ix[m] = k
             THEN IndexResult(orig, ServerError, <<>>)
             ELSE LET next == IF n \in DOMAIN ix THEN ix ELSE ix @@ (n :> k)
                      rest == createIndexesFrom(orig, next, Tail(specs))
                  IN  IF rest.err # NoError THEN rest
                      ELSE [rest EXCEPT !.names = <<n>> \o @]

createIndexes(ix, specs) == createIndexesFrom(ix, ix, specs)

\* collection.dropIndex(name)
dropIndex(ix, name) ==
    IF name \in DOMAIN ix
    THEN IndexResult([m \in DOMAIN ix \ {name} |-> ix[m]], NoError, <<>>)
    ELSE IndexResult(ix, ServerError, <<>>)

\* the loop of syncIndexes over the declared indexes, against the listing
\* taken before the loop
RECURSIVE SyncLoop(_, _, _)
SyncLoop(existingIndexes, declared, acc) ==
    IF declared = <<>> \/ acc.err # NoError THEN acc
    ELSE LET index == Head(declared)
             indexName == IF index.name # UNDEF THEN index.name
                          ELSE generateIndexName(index.key)
         IN  IF indexName \notin DOMAIN existingIndexes
             THEN SyncLoop(existingIndexes, Tail(declared),
                           [acc EXCEPT !.indexesToCreate = Append(@, index)])
             ELSE IF existingIndexes[indexName] # index.key
             THEN LET d == dropIndex(acc.ix, indexName)
                  IN  SyncLoop(existingIndexes, Tail(declared),
                               [acc EXCEPT !.ix = d.ix, !.err = d.err,
                                           !.dropped =
                                               IF d.err = NoError
                                               THEN Append(@, indexName) ELSE @,
                                           !.indexesToCreate =
                                               IF d.err = NoError
                                               THEN Append(@, index) ELSE @])
             ELSE SyncLoop(existingIndexes, Tail(declared), acc)

SyncResult(ix, declared) ==
    LET looped == SyncLoop(ix, declared,
                           [ix |-> ix, err |-> NoError, dropped |-> <<>>,
                            indexesToCreate |-> <<>>])
        made == IF looped.err = NoError /\ looped.indexesToCreate # <<>>
                THEN createIndexes(looped.ix, looped.indexesToCreate)
                ELSE IndexResult(looped.ix, looped.err, <<>>)
    IN  [ix |-> made.ix, err |-> made.err, dropped |-> looped.dropped,
         indexesToCreate |-> looped.indexesToCreate, created |-> made.names]

\* Model.syncIndexes(declared); a call made right after another syncIndexes
\* keeps what that call was given and how it ended
syncIndexes(declared) ==
    LET res == SyncResult(indexes, declared)
    IN  /\ indexes' = res.ix
        /\ last' = [NoCall EXCEPT !.op = "syncIndexes", !.schema = model,
                                  !.declared = declared, !.preIndexes = indexes,
                                  !.dropped = res.dropped,
                                  !.names = [i \in DOMAIN res.indexesToCreate |->
                                                IndexName(res.indexesToCreate[i])],
                                  !.created = res.created, !.err = res.err,
                                  !.before = [op |-> last.op,
                                              declared |-> last.declared,
                                              err |-> last.err]]
        /\ UNCHANGED <<connection, opened, pending, sessions, tx, syncing, crudVars>>

\* new Model(collectionName, {schema, indexes}): the constructor calls getDb()
\* and, when indexes are declared, starts indexes.syncIndexes without awaiting
\* the promise and without a rejection handler
NewModelWithIndexes(s, declared) ==
    /\ last' = IF connection = NoConnection
               THEN [NoCall EXCEPT !.op = "Model", !.schema = s,
                                   !.declared = declared,
                                   !.preConn = connection, !.preOpened = opened,
                                   !.err = ConnectionError(UNDEF)]
               ELSE [NoCall EXCEPT !.op = "Model", !.schema = s,
                                   !.declared = declared,
                                   !.preConn = connection, !.preOpened = opened,
                                   !.conn = connection]
    /\ model' = IF connection = NoConnection THEN model ELSE s
    /\ syncing' = IF connection # NoConnection /\ Len(declared) > 0
                  THEN <<declared>> ELSE syncing
    /\ UNCHANGED <<connection, opened, pending, sessions, tx, indexes, store,
                   partialSchemaCache, defaultsCache, nops, now>>

\* the promise of the constructor's syncIndexes settles: the indexes are what
\* the call made of them, and its outcome has no receiver
SyncSettles ==
    /\ syncing # <<>>
    /\ indexes' = SyncResult(indexes, syncing[1]).ix
    /\ syncing' = <<>>
    /\ UNCHANGED <<connection, opened, pending, sessions, tx, last, crudVars>>

\* time passes between two calls
Tick ==
    /\ now < MaxTime
    /\ now' = now + 1
    /\ UNCHANGED <<model, store, partialSchemaCache, defaultsCache, nops, last,
                   clientVars>>

\* the caller takes the outcome of the call; the next call starts from a clean record
Return ==
    /\ last.op # "none"
    /\ last' = NoCall
    /\ UNCHANGED <<now, clientVars, model, store, partialSchemaCache, defaultsCache, nops>>

(***************************************************************************)
(* Specifications                                                          *)
(***************************************************************************)
ModelFilters == {FilterName, FilterCategory, FilterAnd, FilterOr}

UpdateManyFilters == {FilterAll, FilterCategory}

ReplaceFilters == {FilterName, FilterNameY}

Ready == last.op = "none" /\ nops < MaxOps

Next ==
    \/ Ready /\ \E data \in Inputs(model) : insertOne(data)
    \/ Ready /\ \E batch \in Batches(model) : insertMany(batch)
    \/ Ready /\ \E query \in UpdateManyFilters, data \in UpdateInputs(model),
                    upsert \in BOOLEAN :
           update(query, data, upsert)
    \/ Ready /\ \E query \in ModelFilters, data \in UpdateInputs(model),
                    upsert \in BOOLEAN :
           updateOne(query, data, upsert)
    \/ Ready /\ \E query \in ReplaceFilters, data \in ReplaceInputs(model),
                    upsert \in BOOLEAN :
           replaceOne(query, data, upsert)
    \/ Return

Spec == Init /\ [][Next]_vars

\* the validation functions called on their own
Idle == last.op = "none"

NextPure ==
    \/ Idle /\ \E s \in Schemas, query \in Filters, upd \in OperatorDocs :
           CallApplyDefaultsForUpsert(s, query, upd)
    \/ Idle /\ \E s \in Schemas : \E data \in PureInputs(s) : CallParsePartial(s, data)
    \/ Return

PureSpec == Init /\ [][NextPure]_vars

\* the validation gateway and the default extractor on every kind of schema, and
\* updateOne on a model bound to any of them
InitGateway ==
    /\ model \in AllSchemas
    /\ store = <<>>
    /\ partialSchemaCache = {}
    /\ defaultsCache = EmptyDoc
    /\ nops = 0
    /\ last = NoCall
    /\ now = 1
    /\ Connected

NextGateway ==
    \/ Idle /\ \E data \in GatewayInputs(model) : CallParse(model, data)
    \/ Idle /\ \E data \in GatewayInputs(model) : CallParseReplace(model, data)
    \/ Idle /\ \E data \in GatewayInputs(model) : CallParsePartial(model, data)
    \/ Idle /\ CallExtractDefaults(model)
    \/ Ready /\ \E query \in {FilterName, FilterOr}, data \in UpdateInputs(model),
                    upsert \in BOOLEAN :
           updateOne(query, data, upsert)
    \/ Return

GatewaySpec == InitGateway /\ [][NextGateway]_vars

\* a Model bound to a schema with a produced default, and the default extractor
\* called on several schemas, while time passes
InitClock ==
    /\ model = "event"
    /\ store = <<>>
    /\ partialSchemaCache = {}
    /\ defaultsCache = EmptyDoc
    /\ nops = 0
    /\ last = NoCall
    /\ now = 1
    /\ Connected

NextClock ==
    \/ Idle /\ Tick
    \/ Idle /\ \E s \in ClockSchemas \cup {"product"} : CallExtractDefaults(s)
    \/ Ready /\ \E data \in EventInputs : insertOne(data)
    \/ Ready /\ \E query \in ReplaceFilters, data \in EventInputs, upsert \in BOOLEAN :
           updateOne(query, data, upsert)
    \/ Return

ClockSpec == InitClock /\ [][NextClock]_vars

\* the client module, each call awaited before the next is made
InitClient ==
    /\ model \in Schemas
    /\ store = <<>>
    /\ partialSchemaCache = {}
    /\ defaultsCache = EmptyDoc
    /\ nops = 0
    /\ last = NoCall
    /\ connection = NoConnection
    /\ opened = 0
    /\ pending = {}
    /\ sessions = <<>>
    /\ tx = NoTx
    /\ indexes = IdIndex
    /\ syncing = <<>>
    /\ now = 1

Quiet == last.op = "none" /\ pending = {} /\ tx.pc = "none"

NextClient ==
    \/ Quiet /\ \E uri \in Uris, dbName \in DbNames : connectStart(uri, dbName)
    \/ \E p \in pending : connectFinish(p)
    \/ Quiet /\ disconnect
    \/ Quiet /\ getDb
    \/ Quiet /\ \E s \in Schemas : NewModel(s)
    \/ Quiet /\ startSession
    \/ Quiet /\ \E id \in DOMAIN sessions : endSession(id)
    \/ Quiet /\ \E pingOk \in BOOLEAN : healthCheck(pingOk)
    \/ Return

ClientSpec == InitClient /\ [][NextClient]_vars

\* connect() called again before an earlier connect() has settled
NextConcurrent ==
    \/ Idle /\ \E uri \in Uris, dbName \in DbNames : connectStart(uri, dbName)
    \/ \E p \in pending : connectFinish(p)
    \/ Idle /\ pending = {} /\ disconnect
    \/ Return

ConcurrentSpec == InitClient /\ [][NextConcurrent]_vars

\* transactions of a Model on a connected client, until disconnect()
NextTx ==
    \/ Quiet /\ withTransactionStart
    \/ \E data \in Inputs(model) : TxInsertOne(data)
    \/ TxCallbackThrows
    \/ \E value \in CallbackValues : TxCallbackReturns(value)
    \/ Quiet /\ disconnect
    \/ Return

TxSpec == Init /\ [][NextTx]_vars

\* index synchronisation of a Model on a connected client; a syncIndexes may
\* be run again with the same declarations right after it returned
NextIndex ==
    \/ Idle /\ \E declared \in DeclaredLists : syncIndexes(declared)
    \/ /\ last.op = "syncIndexes"
       /\ last.before.op = "none"
       /\ syncIndexes(last.declared)
    \/ Return

IndexSpec == Init /\ [][NextIndex]_vars

\* a Model constructed with declared indexes, the writes made through it
\* afterwards, and the moment the synchronisation the constructor started
\* settles
NextConstruct ==
    \/ /\ Idle
       /\ syncing = <<>>
       /\ nops = 0
       /\ \E declared \in DeclaredLists : NewModelWithIndexes(model, declared)
    \/ SyncSettles
    \/ Ready /\ \E data \in Inputs(model) : insertOne(data)
    \/ Return

ConstructSpec == Init /\ [][NextConstruct]_vars

(***************************************************************************)
(* Properties                                                              *)
(***************************************************************************)
Section(upd, op) == IF op \in DOMAIN upd THEN upd[op] ELSE EmptyDoc

\* the fields named under a recognized update operator of an operator document
NamedByOperators(upd) ==
    {f \in UNION {DOMAIN upd[op] : op \in DOMAIN upd} :
        \E i \in DOMAIN updateOperators :
            updateOperators[i] \in DOMAIN upd /\ f \in DOMAIN upd[updateOperators[i]]}

\* the defaulted fields applyDefaultsForUpsert may inject for a call
Eligible(defaults, query, upd) ==
    (DOMAIN defaults \ NamedByOperators(upd)) \ getEqualityFields(query)

AppliedDefaults == last.op = "applyDefaultsForUpsert"

\* C1: the fields applyDefaultsForUpsert adds to $setOnInsert are exactly the keys of
\* the DefaultsMap that no recognized update operator names and the filter does not
\* pin by equality, each with its DefaultsMap value; a defaulted field that is named
\* in the changes or pinned by the filter is never injected.
C1_InjectedDefaultsExact ==
    AppliedDefaults =>
        LET before == Section(last.update, "$setOnInsert")
            after == Section(last.resultUpdate, "$setOnInsert")
            added == {f \in DOMAIN after : f \notin DOMAIN before \/ after[f] # before[f]}
        IN  /\ added = Eligible(last.defaults, last.filter, last.update)
            /\ \A f \in added : after[f] = last.defaults[f]
            /\ \A f \in DOMAIN last.defaults :
                   (f \in NamedByOperators(last.update)
                       \/ f \in getEqualityFields(last.filter)) => f \notin added

\* a call where one default is excluded by the filter and the other is injected
C1_Witness ==
    /\ AppliedDefaults
    /\ last.filter = FilterCategory
    /\ "$setOnInsert" \notin DOMAIN last.update
    /\ Section(last.resultUpdate, "$setOnInsert") = [inStock |-> "true"]

\* C2: every insert-only field the caller supplied keeps the caller's value, and
\* the defaults of the remaining eligible fields are added next to them.
C2_CallerSetOnInsertKept ==
    (AppliedDefaults /\ "$setOnInsert" \in DOMAIN last.update) =>
        LET before == last.update["$setOnInsert"]
            after == Section(last.resultUpdate, "$setOnInsert")
        IN  /\ \A f \in DOMAIN before : f \in DOMAIN after /\ after[f] = before[f]
            /\ \A f \in Eligible(last.defaults, last.filter, last.update) :
                   f \in DOMAIN after /\ after[f] = last.defaults[f]
            /\ DOMAIN after =
                   DOMAIN before
                       \cup Eligible(last.defaults, last.filter, last.update)

\* the caller's { flag: false } survives next to an injected default
C2_Witness ==
    /\ AppliedDefaults
    /\ last.schema = "product"
    /\ last.filter = FilterAll
    /\ Section(last.update, "$setOnInsert") = [inStock |-> "false"]
    /\ Section(last.resultUpdate, "$setOnInsert")
           = [inStock |-> "false", category |-> "general"]

\* C6: the keys of parsePartial's result are keys of its input, even where the
\* relaxed schema fills an absent field with its default.
C6_PartialKeysSubsetOfInput ==
    (last.op = "parsePartial" /\ last.err = NoError) =>
        DOMAIN last.resultDoc \subseteq DOMAIN last.data

\* { name, price } validated partially: the relaxed schema adds category and
\* inStock, the result carries neither
C6_Witness ==
    /\ last.op = "parsePartial"
    /\ last.err = NoError
    /\ last.schema = "product"
    /\ last.data = [name |-> "X", price |-> "5"]
    /\ last.resultDoc = [name |-> "X", price |-> "5"]
    /\ {"category", "inStock"} \subseteq DOMAIN SafeParse("product", TRUE, last.data).data

\* the defaults the schema declares
DeclaredDefaults(s) ==
    [f \in {g \in DOMAIN Shape(s) : Shape(s)[g].hasDefault} |-> Shape(s)[f].default]

PartialUpdate == last.op \in {"update", "updateOne"}

PreMatches == MatchingIndexes(last.pre, last.filter)

\* every stored document keeps the fields the changes do not name, and gains none
UnmentionedFieldsKept ==
    /\ Len(store) = Len(last.pre)
    /\ \A i \in DOMAIN last.pre :
          /\ \A f \in DOMAIN last.pre[i] \ DOMAIN last.data :
                 f \in DOMAIN store[i] /\ store[i][f] = last.pre[i][f]
          /\ DOMAIN store[i] \subseteq DOMAIN last.pre[i] \cup DOMAIN last.data

\* C3: updateOne with upsert=true and no matching document creates exactly one
\* document: the validated value for every field of the changes, the filter's
\* literal for every field the filter pins to one literal, the schema default for
\* every other defaulted field; so every defaulted field is populated.
C3_UpsertCreatesWithDefaults ==
    (last.op = "updateOne" /\ last.upsert /\ last.err = NoError /\ PreMatches = {}) =>
        /\ Len(store) = Len(last.pre) + 1
        /\ \A i \in DOMAIN last.pre : store[i] = last.pre[i]
        /\ LET created == store[Len(store)]
               validated == ToBson(parsePartial(last.schema, last.data).data)
               defaults == DeclaredDefaults(last.schema)
               pinned == EqualitySeed(last.filter)
           IN  /\ \A f \in DOMAIN validated :
                      f \in DOMAIN created /\ created[f] = validated[f]
               /\ \A f \in DOMAIN pinned \ DOMAIN validated :
                      f \in DOMAIN created /\ created[f] = pinned[f]
               /\ \A f \in DOMAIN defaults \ (DOMAIN validated \cup DOMAIN pinned) :
                      f \in DOMAIN created /\ created[f] = defaults[f]
               /\ \A f \in DOMAIN defaults : f \in DOMAIN created

\* C4: update/updateOne with upsert=true whose filter matches inserts nothing and
\* leaves every field the changes do not name at its pre-update value.
C4_UpsertMatchKeepsFields ==
    (PartialUpdate /\ last.upsert /\ last.err = NoError /\ PreMatches # {}) =>
        /\ last.upserted = 0
        /\ UnmentionedFieldsKept

\* a matched upsert that changes the price of a document whose category and
\* inStock differ from what the insert-only section carries
C4_Witness ==
    /\ last.op = "updateOne" /\ last.upsert /\ last.err = NoError
    /\ last.schema = "product"
    /\ PreMatches = {1}
    /\ last.data = [price |-> "7"]
    /\ last.pre[1]["price"] = "5" /\ last.pre[1]["category"] = "special"
    /\ Section(last.sentUpdate, "$setOnInsert")
           = [category |-> "general", inStock |-> "true"]
    /\ store[1]["price"] = "7" /\ store[1]["category"] = "special"

\* C5: update/updateOne without upsert sends exactly { $set: validated changes },
\* and every stored field the changes do not name keeps its pre-update value.
C5_PlainUpdateSendsSetOnly ==
    (PartialUpdate /\ ~last.upsert /\ last.err = NoError) =>
        /\ last.call = (IF last.op = "update" THEN "updateMany" ELSE "updateOne")
        /\ DOMAIN last.sentUpdate = {"$set"}
        /\ last.sentUpdate["$set"] = parsePartial(last.schema, last.data).data
        /\ UnmentionedFieldsKept

\* a plain update of the price of a stored document with a non-default category
C5_Witness ==
    /\ last.op = "update" /\ ~last.upsert /\ last.err = NoError
    /\ last.schema = "product"
    /\ PreMatches = {1}
    /\ last.data = [price |-> "7"]
    /\ last.pre[1]["price"] = "5" /\ last.pre[1]["category"] = "special"
    /\ last.sentUpdate = ("$set" :> [price |-> "7"])
    /\ store[1]["price"] = "7" /\ store[1]["category"] = "special"

\* C7: replaceOne, with and without upsert, hands the store the full-validation
\* result of the payload without _id: defaults back-filled, no operator added.
C7_ReplaceSendsValidatedWithoutId ==
    LET full == SafeParse(last.schema, FALSE, last.data)
    IN  (last.op = "replaceOne" /\ full.success) =>
            /\ last.call = "replaceOne"
            /\ last.sentUpsert = last.upsert
            /\ last.sentDoc = Without(full.data, "_id")
            /\ "_id" \notin DOMAIN last.sentDoc
            /\ DOMAIN last.sentDoc \cap DollarKeys = {}
            /\ \A f \in DOMAIN DeclaredDefaults(last.schema) :
                   Get(last.data, f) = UNDEF =>
                       /\ f \in DOMAIN last.sentDoc
                       /\ last.sentDoc[f] = DeclaredDefaults(last.schema)[f]

\* an upserting replace whose payload carries _id and omits both defaulted fields
C7_Witness ==
    /\ last.op = "replaceOne" /\ last.upsert /\ last.call = "replaceOne"
    /\ last.data = [_id |-> "id9", name |-> "X", price |-> "5"]
    /\ last.sentDoc
           = [name |-> "X", price |-> "5", category |-> "general", inStock |-> "true"]

\* what full validation makes of one input document
SentAsValidated(s, input, sent) ==
    \A f \in DOMAIN Shape(s) :
        /\ (Shape(s)[f].hasDefault /\ Get(input, f) = UNDEF) =>
               (f \in DOMAIN sent /\ sent[f] = Shape(s)[f].default)
        /\ Get(input, f) # UNDEF => (f \in DOMAIN sent /\ sent[f] = input[f])

InputRejected ==
    CASE last.op \in {"insertOne", "replaceOne"} ->
             ~SafeParse(last.schema, FALSE, last.data).success
      [] last.op = "insertMany" ->
             \E i \in DOMAIN last.batch :
                 ~SafeParse(last.schema, FALSE, last.batch[i]).success
      [] last.op \in {"update", "updateOne"} ->
             DOMAIN last.data # {} /\ ~SafeParse(last.schema, TRUE, last.data).success
      [] OTHER -> FALSE

\* C9: when validation of the input fails, the error is raised before any call
\* to the store driver and the store is unchanged; one invalid element of an
\* insertMany batch fails the whole batch.
C9_RejectedBeforeStore ==
    /\ InputRejected => last.err.kind = "ValidationError"
    /\ last.err.kind = "ValidationError" =>
           /\ last.call = "none"
           /\ store = last.pre
           /\ last.sentDocs = <<>> /\ last.sentDoc = EmptyDoc
           /\ last.sentUpdate = EmptyDoc

\* a batch of a valid element followed by an invalid one: nothing is inserted
C9_Witness ==
    /\ last.op = "insertMany"
    /\ last.batch = <<[name |-> "X", price |-> "5"], [name |-> "X", price |-> "-1"]>>
    /\ last.err.kind = "ValidationError"
    /\ last.call = "none"
    /\ store = last.pre

\* the issue list the schema reports for the input the last call rejected
RejectedIssues ==
    CASE last.op \in {"insertOne", "replaceOne"} ->
             SafeParse(last.schema, FALSE, last.data).issues
      [] last.op = "insertMany" ->
             SafeParse(last.schema, FALSE,
                       last.batch[Min({i \in DOMAIN last.batch :
                           ~SafeParse(last.schema, FALSE, last.batch[i]).success})]).issues
      [] OTHER -> SafeParse(last.schema, TRUE, last.data).issues

\* C10: a ValidationError carries the tag of its entry point (insert for
\* insertOne and insertMany, update for update and updateOne, replace for
\* replaceOne) and the schema's issues, each issue's path a key of getFieldErrors.
C10_ErrorTagMatchesEntryPoint ==
    last.err.kind = "ValidationError" =>
        /\ last.err.operation =
               (CASE last.op \in {"insertOne", "insertMany"} -> "insert"
                  [] last.op \in {"update", "updateOne"} -> "update"
                  [] last.op = "replaceOne" -> "replace"
                  [] OTHER -> "")
        /\ last.err.issues # <<>>
        /\ last.err.issues = RejectedIssues
        /\ \A i \in DOMAIN last.err.issues :
               LET issue == last.err.issues[i]
               IN  /\ Len(issue.path) = 1
                   /\ issue.path[1] \in DOMAIN getFieldErrors(last.err)
                   /\ issue.message
                          \in SeqToSet(getFieldErrors(last.err)[issue.path[1]])

\* a replace rejected for two fields
C10_Witness ==
    /\ last.op = "replaceOne"
    /\ last.schema = "user"
    /\ last.data = [name |-> "", email |-> "bad"]
    /\ last.err.kind = "ValidationError"
    /\ last.err.operation = "replace"
    /\ DOMAIN getFieldErrors(last.err) = {"name", "email"}

\* relaxed validation of the empty input ends in a successful result
RelaxedEmptySucceeds(s) ==
    LET r == SafeParse(s, TRUE, EmptyDoc) IN r.kind = "result" /\ r.success

\* C11: when the schema's validation reports asynchronous resolution, parse,
\* parseReplace and parsePartial fail with AsyncValidationError for every input,
\* the empty one included.
C11_AsyncSchemaAlwaysRejected ==
    (/\ last.op \in {"parse", "parseReplace", "parsePartial"}
     /\ Behaviour(last.schema) = "promise")
        => last.err = AsyncValidationError

\* C19: extractDefaults returns the empty DefaultsMap, raising nothing, when the
\* relaxed validation of the empty input fails, throws or is asynchronous; an
\* upsert through such a schema sends { $set: validated } with nothing injected.
C19_FailedExtractionGivesNoDefaults ==
    /\ (last.op = "extractDefaults" /\ ~RelaxedEmptySucceeds(last.schema)) =>
           last.err = NoError /\ last.resultDoc = EmptyDoc
    /\ (/\ last.op = "updateOne" /\ last.upsert
        /\ ~RelaxedEmptySucceeds(last.schema)
        /\ parsePartial(last.schema, last.data).err = NoError) =>
           /\ last.call = "updateOne"
           /\ last.err = NoError
           /\ last.defaults = EmptyDoc
           /\ last.sentUpdate = "$set" :> parsePartial(last.schema, last.data).data

\* an upsert through the schema whose relaxed validation of {} fails reaches the
\* store with the caller's change only
C19_Witness ==
    /\ last.op = "updateOne" /\ last.upsert
    /\ last.schema = "prefaultSchema"
    /\ last.data = [code |-> "special"]
    /\ last.sentUpdate = "$set" :> [code |-> "special"]
    /\ last.upserted = 1

\* C20: for a schema whose relaxed validation of the empty input succeeds, the
\* DefaultsMap returned by extractDefaults has exactly the fields for which that
\* validation yields a defined value, with that value.
C20_DefaultsMapIsDefinedPartOfEmptyParse ==
    (last.op = "extractDefaults" /\ RelaxedEmptySucceeds(last.schema)) =>
        LET data == SafeParse(last.schema, TRUE, EmptyDoc).data
        IN  /\ \A f \in DOMAIN Shape(last.schema) :
                   f \in DOMAIN last.resultDoc <=> Get(data, f) # UNDEF
            /\ \A f \in DOMAIN last.resultDoc : last.resultDoc[f] = data[f]

\* the product schema's map, computed, cached and returned
C20_Witness ==
    /\ last.op = "extractDefaults"
    /\ last.schema = "product"
    /\ "product" \in DOMAIN defaultsCache
    /\ last.resultDoc = [category |-> "general", inStock |-> "true"]
\* C18: applyDefaultsForUpsert returns the operator document as it was given when
\* the DefaultsMap is empty or every defaulted field is modified by the changes or
\* pinned by the filter.
C18_NothingToAddReturnsUpdateUnchanged ==
    (AppliedDefaults /\ Eligible(last.defaults, last.filter, last.update) = {}) =>
        last.resultUpdate = last.update

\* both product defaults excluded, one by the filter and one by an operator, in a
\* document that has no insert-only section
C18_Witness ==
    /\ AppliedDefaults
    /\ last.defaults = [category |-> "general", inStock |-> "true"]
    /\ last.filter = FilterCategory
    /\ last.update = "$inc" :> [inStock |-> "5"]
    /\ last.resultUpdate = last.update
\* C14: while a connection is established a further connect() opens no new
\* client and returns the existing connection whatever target it is given;
\* with no connection established a successful connect() returns a connection
\* around a client that did not exist before, so it is distinct from every
\* earlier connection
C14_ConnectIsSingletonUntilDisconnect ==
    /\ connection # NoConnection => connection.client \in 1..opened
    /\ (last.op = "connect" /\ last.preConn # NoConnection) =>
           /\ last.err = NoError
           /\ last.conn = last.preConn
           /\ connection = last.preConn
           /\ opened = last.preOpened
    /\ (last.op = "connect" /\ last.preConn = NoConnection
           /\ last.err = NoError) =>
           /\ last.conn.client = last.preOpened + 1
           /\ last.conn.db = last.dbName
           /\ connection = last.conn

\* C14 witness: a connect() to another target and database while the second
\* connection of the run is established returned that connection
C14_Witness ==
    /\ last.op = "connect"
    /\ last.preConn = [client |-> 2, db |-> "test_db"]
    /\ last.uri = "mongodb://down"
    /\ last.dbName = "other_db"
    /\ last.conn = last.preConn

\* C15: with no connection established getDb, startSession and Model
\* construction fail with ConnectionError; a connect() that fails throws
\* ConnectionError carrying the target uri and leaves the state not connected,
\* and every connect() made while not connected opens a fresh client
C15_NotConnectedMeansConnectionError ==
    /\ (last.op \in {"getDb", "startSession", "Model"}
           /\ last.preConn = NoConnection) =>
           /\ last.err = ConnectionError(UNDEF)
           /\ connection = NoConnection
    /\ (last.op = "connect" /\ last.preConn = NoConnection
           /\ ~Reachable(last.uri)) =>
           /\ last.err = ConnectionError(last.uri)
           /\ connection = NoConnection
    /\ (last.op = "connect" /\ last.preConn = NoConnection) =>
           opened = last.preOpened + 1

\* C15 witness: a second connect() that failed after an earlier client was
\* opened, leaving the state not connected
C15_Witness ==
    /\ last.op = "connect"
    /\ last.err = ConnectionError("mongodb://down")
    /\ last.preOpened = 1
    /\ opened = 2
    /\ connection = NoConnection

\* C16: healthCheck never throws; connected is false exactly when no
\* connection is established, healthy implies connected, responseTimeMs is
\* present exactly when healthy and error exactly when not healthy
C16_HealthCheckResultIsConsistent ==
    last.op = "healthCheck" =>
        /\ last.err = NoError
        /\ (last.health.connected = FALSE) <=> (last.preConn = NoConnection)
        /\ last.health.healthy => last.health.connected
        /\ (last.health.responseTimeMs # UNDEF) <=> last.health.healthy
        /\ (last.health.error # UNDEF) <=> ~last.health.healthy

\* C16 witness: a healthCheck after connect() and disconnect() reported
\* healthy = false and connected = false
C16_Witness ==
    /\ last.op = "healthCheck"
    /\ opened = 1
    /\ last.preConn = NoConnection
    /\ ~last.health.healthy
    /\ ~last.health.connected

\* C12: every session withTransaction starts is ended exactly once by the time
\* withTransaction returns or throws, whether the callback succeeded, threw its
\* own error or let a ValidationError of a model operation propagate; while the
\* callback runs the session is still open
C12_SessionEndedExactlyOnceOnEveryExit ==
    /\ tx.pc = "none" => \A i \in DOMAIN sessions : sessions[i].ended = 1
    /\ tx.pc = "callback" =>
           /\ sessions[tx.session].ended = 0
           /\ \A i \in DOMAIN sessions \ {tx.session} : sessions[i].ended = 1
    /\ (last.op = "withTransaction" /\ last.session # 0) =>
           sessions[last.session].ended = 1
    /\ (last.op = "withTransaction" /\ last.session = 0) =>
           last.err = ConnectionError(UNDEF)

\* C12 witness: the second transaction of the run ended its session after an
\* insertOne in its callback failed validation following a successful one
C12_Witness ==
    /\ last.op = "withTransaction"
    /\ last.session = 2
    /\ last.err.kind = "ValidationError"
    /\ Len(last.writes) = 1
    /\ sessions[2].ended = 1

\* C13: when the callback throws, the store is as it was before the
\* transaction, none of the callback's writes is in it, and withTransaction
\* rejects with the callback's error; when the callback succeeds the store
\* holds all its writes and withTransaction returns the callback's value
C13_AbortDiscardsCommitKeeps ==
    (last.op = "withTransaction" /\ last.session # 0) =>
        IF last.callback.err # NoError
        THEN /\ store = last.pre
             /\ \A i \in DOMAIN last.writes :
                    \A j \in DOMAIN store : store[j] # last.writes[i]
             /\ last.err = last.callback.err
             /\ last.err.kind \in {"SimulatedError", "ValidationError"}
        ELSE /\ store = last.pre \o last.writes
             /\ last.err = NoError
             /\ last.returned = last.callback.value

\* C13 witness: a transaction on a store holding a committed document was
\* aborted by a ValidationError after one write through its session
C13_Witness ==
    /\ last.op = "withTransaction"
    /\ last.err.kind = "ValidationError"
    /\ Len(last.pre) = 1
    /\ Len(last.writes) = 1
    /\ store = last.pre

\* the names of the declared indexes whose name is absent from a listing
AbsentNames(ix, declared) ==
    {IndexName(declared[i]) : i \in {j \in DOMAIN declared :
                                       IndexName(declared[j]) \notin DOMAIN ix}}

\* the names of the declared indexes listed with another key specification
DifferingNames(ix, declared) ==
    {IndexName(declared[i]) : i \in {j \in DOMAIN declared :
                                       /\ IndexName(declared[j]) \in DOMAIN ix
                                       /\ ix[IndexName(declared[j])]
                                              # declared[j].key}}

\* C17: a successful syncIndexes(L) drops exactly the declared indexes whose
\* listed key differs, creates those and the absent ones, leaves every other
\* index untouched and returns the names created; a second syncIndexes(L) right
\* after a successful one drops nothing, creates nothing and returns an empty
\* list
C17_SyncIsIdempotent ==
    /\ (last.op = "syncIndexes" /\ last.err = NoError) =>
           /\ SeqToSet(last.dropped) = DifferingNames(last.preIndexes, last.declared)
           /\ SeqToSet(last.created) =
                  AbsentNames(last.preIndexes, last.declared)
                      \cup DifferingNames(last.preIndexes, last.declared)
           /\ \A n \in DOMAIN last.preIndexes \ SeqToSet(last.created) :
                  n \in DOMAIN indexes /\ indexes[n] = last.preIndexes[n]
           /\ DOMAIN indexes = DOMAIN last.preIndexes \cup SeqToSet(last.created)
    /\ (last.op = "syncIndexes" /\ last.before.op = "syncIndexes"
           /\ last.before.err = NoError
           /\ last.before.declared = last.declared) =>
           /\ last.err = NoError
           /\ last.dropped = <<>>
           /\ last.created = <<>>
           /\ indexes = last.preIndexes

\* C29: no value in parsePartial's result originates from a schema default: a
\* field the input names with the value undefined carries no defined value in
\* the result
C29_PartialResultCarriesNoDefault ==
    (last.op = "parsePartial" /\ last.err = NoError) =>
        \A k \in DOMAIN last.resultDoc :
            Get(last.data, k) = UNDEF => last.resultDoc[k] = UNDEF

\* the fields of a filter whose predicate is an operator sub-document
OperatorPredicateFields(filter) ==
    {f \in DOMAIN filter :
        /\ ~StartsWithDollar(f)
        /\ filter[f].t = "obj"
        /\ \E k \in DOMAIN filter[f].obj : StartsWithDollar(k)}

\* the fields of a filter whose predicate is a sub-document without operator key
DocumentPredicateFields(filter) ==
    {f \in DOMAIN filter :
        /\ ~StartsWithDollar(f)
        /\ filter[f].t = "obj"
        /\ \A k \in DOMAIN filter[f].obj : ~StartsWithDollar(k)}

\* the call injected the default of field f into the insert-only section
DefaultInjected(f) ==
    /\ f \notin DOMAIN Section(last.update, "$setOnInsert")
    /\ f \in DOMAIN Section(last.resultUpdate, "$setOnInsert")
    /\ Section(last.resultUpdate, "$setOnInsert")[f] = last.defaults[f]

\* the call left the insert-only section without a value of its own for f
NothingInjected(f) ==
    Get(Section(last.resultUpdate, "$setOnInsert"), f)
        = Get(Section(last.update, "$setOnInsert"), f)

\* C22 as stated: a field whose predicate is an operator sub-document is pinned
\* only if the sub-document holds $eq and no other operator; otherwise the
\* field is not pinned and its default is injected on upsert
C22_OnlyEqAlonePins ==
    AppliedDefaults =>
        \A f \in OperatorPredicateFields(last.filter) :
            LET ops == DOMAIN last.filter[f].obj
            IN  /\ (f \in getEqualityFields(last.filter)) <=> (ops = {"$eq"})
                /\ (/\ ops # {"$eq"}
                    /\ f \in DOMAIN last.defaults
                    /\ f \notin NamedByOperators(last.update)) => DefaultInjected(f)

\* C22 amended: a field whose predicate is an operator sub-document is pinned
\* exactly when the sub-document holds $eq, alone or beside other operators,
\* and then no default is injected for it; a sub-document of non-equality
\* operators only does not pin the field and its default is injected on upsert
C22_EqAmongOperatorsPins ==
    AppliedDefaults =>
        \A f \in OperatorPredicateFields(last.filter) :
            LET ops == DOMAIN last.filter[f].obj
            IN  /\ (f \in getEqualityFields(last.filter)) <=> ("$eq" \in ops)
                /\ "$eq" \in ops =>
                       /\ NothingInjected(f)
                       /\ Get(EqualitySeed(last.filter), f)
                              = last.filter[f].obj["$eq"].lit
                /\ (/\ "$eq" \notin ops
                    /\ f \in DOMAIN last.defaults
                    /\ f \notin NamedByOperators(last.update)) => DefaultInjected(f)

\* C22 witness: with $eq beside $ne on category only the other default was
\* injected
C22_Witness ==
    /\ AppliedDefaults
    /\ last.filter = FilterCategoryMixed
    /\ last.defaults = [category |-> "general", inStock |-> "true"]
    /\ last.update = "$set" :> [name |-> "X"]
    /\ Section(last.resultUpdate, "$setOnInsert") = [inStock |-> "true"]

\* C23 as stated: a field whose predicate is a sub-document without operator
\* key is not pinned, so its default is injected on upsert
C23_DocumentPredicateDoesNotPin ==
    AppliedDefaults =>
        \A f \in DocumentPredicateFields(last.filter) :
            /\ f \notin getEqualityFields(last.filter)
            /\ (f \in DOMAIN last.defaults /\ f \notin NamedByOperators(last.update))
                   => DefaultInjected(f)

\* C23 amended: a field whose predicate is a sub-document without operator key
\* is pinned: no default is injected for it, and an upsert takes the
\* sub-document from the filter as the field's value
C23_DocumentPredicatePins ==
    AppliedDefaults =>
        \A f \in DocumentPredicateFields(last.filter) :
            /\ f \in getEqualityFields(last.filter)
            /\ NothingInjected(f)
            /\ Get(EqualitySeed(last.filter), f) = EmbeddedDoc(last.filter[f].obj)

\* C23 witness: with an embedded document as the predicate of category only
\* the other default was injected
C23_Witness ==
    /\ AppliedDefaults
    /\ last.filter = FilterCategoryDoc
    /\ last.defaults = [category |-> "general", inStock |-> "true"]
    /\ last.update = "$set" :> [name |-> "X"]
    /\ Section(last.resultUpdate, "$setOnInsert") = [inStock |-> "true"]

\* documents a collection may hold, to match filters against
SampleDocs ==
    PartialDocs([name |-> {"X", "Y"},
                 category |-> {"special", "Y", "general", EmbeddedDoc("x" :> Lit("1"))},
                 inStock |-> {"true", "false"}])

\* the document holds v at the path
HoldsAt(doc, path, v) == Get(doc, Pin(path, v)[1]) = Pin(path, v)[2]

\* C24: every field getEqualityFields returns for a filter is constrained by
\* the filter to one literal: every document matching the filter holds it, and
\* so does the document an upsert creates from the filter; also for filters
\* built with $and, $or and $nor
C24_PinnedFieldsAreFixedByFilter ==
    AppliedDefaults =>
        \A f \in getEqualityFields(last.filter) :
            \E v \in StringVals \cup BoolVals \cup {"1", EmbeddedDoc("x" :> Lit("1"))} :
                /\ \A d \in SampleDocs : Matches(d, last.filter) => HoldsAt(d, f, v)
                /\ HoldsAt(EqualitySeed(last.filter), f, v)

\* C27: no default is injected for a field F when the filter pins, or an update
\* operator modifies, a dotted sub-path of F
C27_NoDefaultOverSubPath ==
    AppliedDefaults =>
        \A f \in DOMAIN last.defaults :
            (\E p \in (getEqualityFields(last.filter)
                          \cup NamedByOperators(last.update)) \cap DOMAIN DottedPaths :
                 DottedPaths[p][1] = f)
                => ~DefaultInjected(f)

C21_CacheEntriesAreStable ==
    [][/\ \A s \in DOMAIN defaultsCache :
              s \in DOMAIN defaultsCache' /\ defaultsCache'[s] = defaultsCache[s]
       /\ partialSchemaCache \subseteq partialSchemaCache'
       /\ (/\ last.op = "none"
           /\ last'.op = "extractDefaults"
           /\ last'.schema \in DOMAIN defaultsCache) =>
              last'.resultDoc = defaultsCache[last'.schema]
       /\ (/\ last.op = "none"
           /\ last'.op = "extractDefaults"
           /\ last'.schema \notin DOMAIN defaultsCache
           /\ last'.schema \in ClockSchemas) =>
              last'.resultDoc = [createdAt |-> Stamp(now)]]_vars

\* C21 witness: extractDefaults on a schema returned the entry stored at an
\* earlier time while the other schema of the same shape holds its own entry
C21_Witness ==
    /\ last.op = "extractDefaults"
    /\ last.schema = "event"
    /\ now = 2
    /\ last.resultDoc = [createdAt |-> Stamp(1)]
    /\ "eventCopy" \in DOMAIN defaultsCache
    /\ defaultsCache["eventCopy"] = [createdAt |-> Stamp(2)]

\* C25: the document an upsert creates holds, for a field whose default is a
\* producer, the producer's value at the time of that upsert, as a plain insert
\* at that time would
C25_UpsertUsesProducerValueOfItsTime ==
    (/\ last.op = "updateOne"
     /\ last.schema \in ClockSchemas
     /\ last.upsert
     /\ last.upserted = 1
     /\ "createdAt" \notin DOMAIN last.data) =>
        /\ store[Len(store)].createdAt = Stamp(now)
        /\ store[Len(store)].createdAt
               = parse(last.schema, [name |-> "X"]).data.createdAt

\* C26: whatever the interleaving of connect() calls issued while no
\* connection is established, a client is opened only when no connection is
\* established and no other connect() is under way, and an established
\* connection is never replaced by another one (only disconnect() ends it), so
\* that every caller gets the same connection and no opened client is lost
C26_ConcurrentConnectOpensOneClient ==
    [][/\ opened' > opened => (connection = NoConnection /\ pending = {})
       /\ (connection # NoConnection /\ connection' # connection) =>
              connection' = NoConnection]_vars

\* C28: when a Model is constructed with declared indexes, no write made
\* through it changes the store while the synchronisation the constructor
\* started is still running, and when that synchronisation fails the failure
\* is in the outcome some caller receives
C28_WritesWaitForIndexSync ==
    [][/\ store' # store => syncing = <<>>
       /\ (/\ syncing # <<>>
           /\ syncing' = <<>>
           /\ SyncResult(indexes, syncing[1]).err # NoError) =>
              last'.err # NoError]_vars

====
